---- MODULE Spec2Model ----
(***************************************************************************)
(* FinanceTracker (finance_tracker.py): the in-memory transaction list,    *)
(* its JSON persistence (load_data / save_data), add_transaction and the   *)
(* queries get_transactions, get_balance and get_category_summary.         *)
(*                                                                         *)
(* Text (str) is a sequence of Unicode code points, the file holds UTF-8   *)
(* bytes, a date is a record [year, month, day] as datetime.date keeps it. *)
(***************************************************************************)
EXTENDS Integers, Sequences, FiniteSets, TLC

VARIABLES
    transactions,   \* self.transactions
    file,           \* what self.data_file holds on disk
    zeroPadYear,    \* whether the platform's strftime pads %Y to 4 digits
    op,             \* the last call made on the tracker
    args,           \* its arguments
    status,         \* how its load/save went: "ok", "failed", "nofile", "none"
    val,            \* what it returned
    sync,           \* "dirty" since a save failed, "recovered" by the next good save
    loaded          \* how many leading transactions came from the last load

vars == <<transactions, file, zeroPadYear, op, args, status, val, sync, loaded>>

(***************************** bounds **************************************)
MaxTx == 2          \* store size explored by the persistence specification
MaxQueryTx == 3     \* store size explored by the query specification

(***************************** text ****************************************)
Income == <<105, 110, 99, 111, 109, 101>>                \* 'income'
Expense == <<101, 120, 112, 101, 110, 115, 101>>         \* 'expense'
Transfer == <<116, 114, 97, 110, 115, 102, 101, 114>>    \* 'transfer'
EmptyStr == <<>>                                         \* ''
None == <<-1>>                                           \* Python's None

\* self.categories
categories(type) ==
    IF type = Income THEN
        << <<1047, 1072, 1088, 1087, 1083, 1072, 1090, 1072>>,
           <<1060, 1088, 1080, 1083, 1072, 1085, 1089>>,
           <<1048, 1085, 1074, 1077, 1089, 1090, 1080, 1094, 1080, 1080>>,
           <<1055, 1086, 1076, 1072, 1088, 1082, 1080>>,
           <<1055, 1088, 1086, 1095, 1080, 1077, 32, 1076, 1086, 1093, 1086, 1076, 1099>> >>
    ELSE IF type = Expense THEN
        << <<1045, 1076, 1072>>,
           <<1058, 1088, 1072, 1085, 1089, 1087, 1086, 1088, 1090>>,
           <<1056, 1072, 1079, 1074, 1083, 1077, 1095, 1077, 1085, 1080, 1103>>,
           <<1050, 1086, 1084, 1084, 1091, 1085, 1072, 1083, 1100, 1085, 1099, 1077>>,
           <<1047, 1076, 1086, 1088, 1086, 1074, 1100, 1077>>,
           <<1054, 1076, 1077, 1078, 1076, 1072>>,
           <<1054, 1073, 1088, 1072, 1079, 1086, 1074, 1072, 1085, 1080, 1077>>,
           <<1055, 1088, 1086, 1095, 1080, 1077, 32, 1088, 1072, 1089, 1093, 1086, 1076, 1099>> >>
    ELSE <<>>

Salary == categories(Income)[1]                          \* 'Зарплата'
Food == categories(Expense)[1]                           \* 'Еда'
Bogus == <<66, 111, 103, 117, 115>>                      \* 'Bogus'
Lunch == <<108, 117, 110, 99, 104, 32, 34, 120, 34>>     \* 'lunch "x"'
Path == <<97, 92, 1073>>                                 \* 'a\б'

\* json.dump(..., ensure_ascii=False) of a str: quotes, with " and \ escaped
RECURSIVE JsonEscape(_)
JsonEscape(s) ==
    IF s = <<>> THEN <<>>
    ELSE (IF Head(s) = 34 THEN <<92, 34>>
          ELSE IF Head(s) = 92 THEN <<92, 92>>
          ELSE <<Head(s)>>) \o JsonEscape(Tail(s))

JsonDumpStr(s) == <<34>> \o JsonEscape(s) \o <<34>>

\* json.load of the body of a string literal
RECURSIVE JsonUnescape(_)
JsonUnescape(s) ==
    IF s = <<>> THEN <<>>
    ELSE IF Head(s) = 92 /\ Len(s) >= 2
         THEN <<s[2]>> \o JsonUnescape(Tail(Tail(s)))
         ELSE <<Head(s)>> \o JsonUnescape(Tail(s))

JsonLoadStr(s) == JsonUnescape(SubSeq(s, 2, Len(s) - 1))

\* open(..., 'w', encoding='utf-8'): code points to bytes
RECURSIVE Utf8Encode(_)
Utf8Encode(s) ==
    IF s = <<>> THEN <<>>
    ELSE LET c == Head(s) IN
         (IF c < 128 THEN <<c>>
          ELSE IF c < 2048 THEN <<192 + (c \div 64), 128 + (c % 64)>>
          ELSE <<224 + (c \div 4096), 128 + ((c \div 64) % 64), 128 + (c % 64)>>)
         \o Utf8Encode(Tail(s))

\* open(..., 'r', encoding='utf-8'): bytes to code points
RECURSIVE Utf8Decode(_)
Utf8Decode(b) ==
    IF b = <<>> THEN <<>>
    ELSE LET x == Head(b) IN
         IF x < 128 THEN <<x>> \o Utf8Decode(Tail(b))
         ELSE IF x < 224
         THEN <<(x - 192) * 64 + (b[2] - 128)>> \o Utf8Decode(Tail(Tail(b)))
         ELSE <<(x - 224) * 4096 + (b[2] - 128) * 64 + (b[3] - 128)>>
              \o Utf8Decode(Tail(Tail(Tail(b))))

WriteStr(s) == Utf8Encode(JsonDumpStr(s))
ReadStr(b) == JsonLoadStr(Utf8Decode(b))

\* json's decimal rendering of a non-negative number, and its parse
RECURSIVE Digits(_)
Digits(n) == IF n < 10 THEN <<48 + n>> ELSE Digits(n \div 10) \o <<48 + (n % 10)>>

RECURSIVE ParseDigits(_)
ParseDigits(s) ==
    IF s = <<>> THEN 0
    ELSE ParseDigits(SubSeq(s, 1, Len(s) - 1)) * 10 + (s[Len(s)] - 48)

WriteNum(n) == IF n < 0 THEN <<45>> \o Digits(-n) ELSE Digits(n)
ReadNum(b) == IF b # <<>> /\ Head(b) = 45 THEN -ParseDigits(Tail(b)) ELSE ParseDigits(b)

(***************************** dates ***************************************)
Date(y, m, d) == [year |-> y, month |-> m, day |-> d]
NoDate == Date(0, 0, 0)             \* date=None
ValueError == Date(-1, -1, -1)      \* strptime raised ValueError

Today == Date(2026, 11, 2)          \* datetime.date.today()
MinOrdinal == 1                     \* datetime.date.min.toordinal()
MaxOrdinal == 3652059               \* datetime.date.max.toordinal()

IsLeap(y) == y % 4 = 0 /\ (y % 100 # 0 \/ y % 400 = 0)

DaysInMonth(y, m) ==
    IF m = 2 THEN (IF IsLeap(y) THEN 29 ELSE 28)
    ELSE IF m \in {4, 6, 9, 11} THEN 30 ELSE 31

RECURSIVE DaysBeforeMonth(_, _)
DaysBeforeMonth(y, m) ==
    IF m = 1 THEN 0 ELSE DaysBeforeMonth(y, m - 1) + DaysInMonth(y, m - 1)

DaysBeforeYear(y) ==
    (y - 1) * 365 + ((y - 1) \div 4) - ((y - 1) \div 100) + ((y - 1) \div 400)

\* date.toordinal()
toordinal(d) == DaysBeforeYear(d.year) + DaysBeforeMonth(d.year, d.month) + d.day

RECURSIVE YearOfOrdinal(_, _)
YearOfOrdinal(n, y) == IF DaysBeforeYear(y + 1) >= n THEN y ELSE YearOfOrdinal(n, y + 1)

RECURSIVE MonthOfDay(_, _, _)
MonthOfDay(y, n, m) ==
    IF DaysBeforeMonth(y, m) + DaysInMonth(y, m) >= n THEN m ELSE MonthOfDay(y, n, m + 1)

\* date.fromordinal(n)
fromordinal(n) ==
    LET y == YearOfOrdinal(n, ((n - 1) \div 366) + 1)
        m == MonthOfDay(y, n - DaysBeforeYear(y), 1)
    IN  Date(y, m, n - DaysBeforeYear(y) - DaysBeforeMonth(y, m))

OverflowError == Date(-2, -2, -2)   \* date arithmetic raised OverflowError

\* date - datetime.timedelta(days=days)
DateMinusDays(d, days) ==
    LET n == toordinal(d) - days IN
    IF n >= MinOrdinal /\ n <= MaxOrdinal THEN fromordinal(n) ELSE OverflowError

\* a < b on dates: by year, then month, then day
DateLess(a, b) ==
    \/ a.year < b.year
    \/ a.year = b.year /\ a.month < b.month
    \/ a.year = b.year /\ a.month = b.month /\ a.day < b.day

Pad(s, width) ==
    [i \in 1..(IF Len(s) < width THEN width ELSE Len(s)) |->
        IF Len(s) < width
        THEN (IF i <= width - Len(s) THEN 48 ELSE s[i - (width - Len(s))])
        ELSE s[i]]

\* date.strftime('%Y-%m-%d'); %Y is padded to four digits only where the
\* platform's C library does so
strftime(d, pad) ==
    (IF pad THEN Pad(Digits(d.year), 4) ELSE Digits(d.year))
    \o <<45>> \o Pad(Digits(d.month), 2) \o <<45>> \o Pad(Digits(d.day), 2)

AllDigits(s) == \A i \in 1..Len(s) : s[i] \in 48..57

\* datetime.datetime.strptime(s, '%Y-%m-%d').date(): four year digits, one
\* or two month digits, one or two day digits, and a date that exists
strptime(s) ==
    LET dashes == {i \in 1..Len(s) : s[i] = 45} IN
    IF Cardinality(dashes) # 2 THEN ValueError
    ELSE LET i1 == CHOOSE i \in dashes : \A j \in dashes : i <= j
             i2 == CHOOSE i \in dashes : \A j \in dashes : i >= j
             ys == SubSeq(s, 1, i1 - 1)
             ms == SubSeq(s, i1 + 1, i2 - 1)
             ds == SubSeq(s, i2 + 1, Len(s))
         IN  IF /\ Len(ys) = 4 /\ Len(ms) \in 1..2 /\ Len(ds) \in 1..2
                /\ AllDigits(ys) /\ AllDigits(ms) /\ AllDigits(ds)
                /\ ParseDigits(ys) >= 1
                /\ ParseDigits(ms) \in 1..12
                /\ ParseDigits(ds) \in 1..DaysInMonth(ParseDigits(ys), ParseDigits(ms))
             THEN Date(ParseDigits(ys), ParseDigits(ms), ParseDigits(ds))
             ELSE ValueError

(***************************** persistence *********************************)
Missing == [kind |-> "missing", transactions |-> <<>>]   \* no file at data_file
Corrupt == [kind |-> "corrupt", transactions |-> <<>>]   \* not a JSON document

\* trans_copy, as json.dump writes it
WriteTransaction(t, pad) ==
    [id |-> WriteNum(t.id),
     date |-> WriteStr(strftime(t.date, pad)),
     amount |-> WriteNum(t.amount),
     category |-> WriteStr(t.category),
     description |-> WriteStr(t.description),
     type |-> WriteStr(t.type)]

\* dump, were only the newest transaction written
dump_newest(txs, pad) ==
    [kind |-> "json",
     transactions |-> [i \in 1..(IF txs = <<>> THEN 0 ELSE 1) |->
                          WriteTransaction(txs[Len(txs)], pad)]]

\* data = {'transactions': transactions_to_save}, as written to the file
dump(txs, pad) ==
    [kind |-> "json",
     transactions |-> [i \in 1..Len(txs) |-> WriteTransaction(txs[i], pad)]]

\* one record of json.load's result, its date replaced by strptime's
ReadTransaction(r) ==
    [id |-> ReadNum(r.id),
     date |-> strptime(ReadStr(r.date)),
     amount |-> ReadNum(r.amount),
     category |-> ReadStr(r.category),
     description |-> ReadStr(r.description),
     type |-> ReadStr(r.type)]

\* load, were the records read added to the list instead of replacing it
load_extend(f, current) ==
    IF f.kind = "missing" THEN [transactions |-> current, status |-> "nofile"]
    ELSE IF f.kind = "corrupt" THEN [transactions |-> <<>>, status |-> "failed"]
    ELSE LET read == [i \in 1..Len(f.transactions) |-> ReadTransaction(f.transactions[i])]
         IN  IF \E i \in 1..Len(read) : read[i].date = ValueError
             THEN [transactions |-> <<>>, status |-> "failed"]
             ELSE [transactions |-> current \o read, status |-> "ok"]

\* load_data's effect on self.transactions, given the file and the list so far
load(f, current) ==
    IF f.kind = "missing" THEN [transactions |-> current, status |-> "nofile"]
    ELSE IF f.kind = "corrupt" THEN [transactions |-> <<>>, status |-> "failed"]
    ELSE LET read == [i \in 1..Len(f.transactions) |-> ReadTransaction(f.transactions[i])]
         IN  IF \E i \in 1..Len(read) : read[i].date = ValueError
             THEN [transactions |-> <<>>, status |-> "failed"]
             ELSE [transactions |-> read, status |-> "ok"]

\* how a write can go: done; open() refused (file untouched); or the file was
\* truncated by open() and the dump broke off
WriteOutcomes == {"ok", "denied", "partial"}

write(f, txs, pad, outcome) ==
    IF outcome = "ok" THEN dump(txs, pad)
    ELSE IF outcome = "denied" THEN f
    ELSE Corrupt

NoArgs == [none |-> TRUE]
NoVal == [raised |-> "", value |-> <<>>]

\* abs, were the sign kept
abs_identity(x) == x

abs(x) == IF x < 0 THEN -x ELSE x

\* new_transaction, were the id the length before the append
new_transaction_len(txs, amount, category, description, transaction_type, date) ==
    [id |-> Len(txs),
     date |-> IF date = NoDate THEN Today ELSE date,
     amount |-> abs(amount),
     category |-> category,
     description |-> description,
     type |-> transaction_type]

\* the transaction dict add_transaction builds
new_transaction(txs, amount, category, description, transaction_type, date) ==
    [id |-> Len(txs) + 1,
     date |-> IF date = NoDate THEN Today ELSE date,
     amount |-> abs(amount),
     category |-> category,
     description |-> description,
     type |-> transaction_type]

SyncAfterSave(outcome) ==
    IF outcome # "ok" THEN "dirty"
    ELSE IF sync = "dirty" THEN "recovered" ELSE "clean"

(***************************** operations **********************************)
Init ==
    /\ transactions = <<>>
    /\ file = Missing
    /\ zeroPadYear \in BOOLEAN
    /\ op = "init"
    /\ args = NoArgs
    /\ status = "nofile"
    /\ val = NoVal
    /\ sync = "clean"
    /\ loaded = 0

\* FinanceTracker(): a new process constructs the tracker over the same file
Restart ==
    LET r == load(file, <<>>) IN
    /\ transactions' = r.transactions
    /\ op' = "init"
    /\ args' = NoArgs
    /\ status' = r.status
    /\ val' = NoVal
    /\ sync' = "clean"
    /\ loaded' = Len(r.transactions)
    /\ UNCHANGED <<file, zeroPadYear>>

load_data ==
    LET r == load(file, transactions) IN
    /\ transactions' = r.transactions
    /\ op' = "load_data"
    /\ args' = NoArgs
    /\ status' = r.status
    /\ val' = NoVal
    /\ sync' = IF r.status = "nofile" THEN sync ELSE "clean"
    /\ loaded' = IF r.status = "nofile" THEN loaded ELSE Len(r.transactions)
    /\ UNCHANGED <<file, zeroPadYear>>

save_data(outcome) ==
    /\ file' = write(file, transactions, zeroPadYear, outcome)
    /\ op' = "save_data"
    /\ args' = NoArgs
    /\ status' = IF outcome = "ok" THEN "ok" ELSE "failed"
    /\ val' = NoVal
    /\ sync' = SyncAfterSave(outcome)
    /\ UNCHANGED <<transactions, zeroPadYear, loaded>>

add_transaction(amount, category, description, transaction_type, date, outcome) ==
    /\ transactions' = Append(transactions,
           new_transaction(transactions, amount, category, description,
                           transaction_type, date))
    /\ file' = write(file, transactions', zeroPadYear, outcome)
    /\ op' = "add_transaction"
    /\ args' = [amount |-> amount, category |-> category, description |-> description,
                transaction_type |-> transaction_type, date |-> date]
    /\ status' = IF outcome = "ok" THEN "ok" ELSE "failed"
    /\ val' = NoVal
    /\ sync' = SyncAfterSave(outcome)
    /\ UNCHANGED <<zeroPadYear, loaded>>

\* the environment: the file is deleted, or damaged, outside the program
FileRemoved ==
    /\ file.kind # "missing"
    /\ file' = Missing
    /\ op' = "external"
    /\ args' = NoArgs
    /\ status' = "none"
    /\ val' = NoVal
    /\ UNCHANGED <<transactions, zeroPadYear, sync, loaded>>

FileDamaged ==
    /\ file.kind = "json"
    /\ file' = Corrupt
    /\ op' = "external"
    /\ args' = NoArgs
    /\ status' = "none"
    /\ val' = NoVal
    /\ UNCHANGED <<transactions, zeroPadYear, sync, loaded>>

(***************************** the store's runs ****************************)
StoreInputs ==
    { [amount |-> -50, category |-> Food, description |-> Lunch,
       transaction_type |-> Expense, date |-> NoDate],
      [amount |-> 0, category |-> Salary, description |-> EmptyStr,
       transaction_type |-> Income, date |-> Date(2026, 10, 3)],
      [amount |-> 50, category |-> Bogus, description |-> Path,
       transaction_type |-> Income, date |-> NoDate],
      [amount |-> 20, category |-> Food, description |-> EmptyStr,
       transaction_type |-> Expense, date |-> Date(999, 5, 1)] }

Add(inputs) ==
    \E a \in inputs, w \in WriteOutcomes :
        add_transaction(a.amount, a.category, a.description,
                        a.transaction_type, a.date, w)

Save == \E w \in WriteOutcomes : save_data(w)

Next ==
    \/ (Len(transactions) < MaxTx /\ Add(StoreInputs))
    \/ Save
    \/ load_data
    \/ Restart
    \/ FileRemoved
    \/ FileDamaged

Spec == Init /\ [][Next]_vars

(***************************** queries *************************************)
Reverse(l) == [i \in 1..Len(l) |-> l[Len(l) + 1 - i]]

\* where list.sort puts x in an ascending run: behind every element not above it
InsertByDate(l, x) ==
    LET k == Cardinality({i \in 1..Len(l) : ~DateLess(x.date, l[i].date)}) IN
    SubSeq(l, 1, k) \o <<x>> \o SubSeq(l, k + 1, Len(l))

RECURSIVE SortByDate(_)
SortByDate(l) ==
    IF l = <<>> THEN <<>>
    ELSE InsertByDate(SortByDate(SubSeq(l, 1, Len(l) - 1)), l[Len(l)])

\* sorted(l, key=lambda x: x['date'], reverse=True): the list is reversed,
\* sorted ascending and stable, and reversed again
sorted_reverse(l) == Reverse(SortByDate(Reverse(l)))

\* Python's truth value of the transaction_type argument
Truthy(x) == x # None /\ x # EmptyStr

SelectType(l, transaction_type) ==
    LET keep(t) == t.type = transaction_type IN SelectSeq(l, keep)

get_transactions(txs, days, transaction_type) ==
    LET cutoff_date == DateMinusDays(Today, days) IN
    IF cutoff_date = OverflowError THEN [raised |-> "OverflowError", value |-> <<>>]
    ELSE LET inWindow(t) == ~DateLess(t.date, cutoff_date)
             filtered == SelectSeq(txs, inWindow)
         IN  [raised |-> "",
              value |-> sorted_reverse(
                  IF Truthy(transaction_type)
                  THEN SelectType(filtered, transaction_type)
                  ELSE filtered)]

RECURSIVE SumAmounts(_, _)
SumAmounts(l, type) ==
    IF l = <<>> THEN 0
    ELSE (IF Head(l).type = type THEN Head(l).amount ELSE 0) + SumAmounts(Tail(l), type)

get_balance(txs, days) ==
    LET got == get_transactions(txs, days, None) IN
    IF got.raised # "" THEN [raised |-> got.raised, value |-> 0]
    ELSE [raised |-> "",
          value |-> SumAmounts(got.value, Income) - SumAmounts(got.value, Expense)]

\* by_category[category] += amount on a defaultdict(float)
Accumulate(m, category, amount) ==
    [c \in DOMAIN m \cup {category} |->
        (IF c \in DOMAIN m THEN m[c] ELSE 0) + (IF c = category THEN amount ELSE 0)]

\* the loop of get_category_summary over l, from the two maps so far
RECURSIVE Summarize(_, _, _)
Summarize(l, income_by_category, expense_by_category) ==
    IF l = <<>> THEN <<income_by_category, expense_by_category>>
    ELSE IF Head(l).type = Income
         THEN Summarize(Tail(l),
                        Accumulate(income_by_category, Head(l).category, Head(l).amount),
                        expense_by_category)
         ELSE Summarize(Tail(l),
                        income_by_category,
                        Accumulate(expense_by_category, Head(l).category, Head(l).amount))

get_category_summary(txs, days) ==
    LET got == get_transactions(txs, days, None) IN
    IF got.raised # "" THEN [raised |-> got.raised, value |-> << <<>>, <<>> >>]
    ELSE [raised |-> "", value |-> Summarize(got.value, <<>>, <<>>)]

Query(name, arguments, result) ==
    /\ op' = name
    /\ args' = arguments
    /\ val' = result
    /\ status' = "none"
    /\ UNCHANGED <<transactions, file, zeroPadYear, sync, loaded>>

CallGetTransactions(days, transaction_type) ==
    Query("get_transactions", [days |-> days, transaction_type |-> transaction_type],
          get_transactions(transactions, days, transaction_type))

CallGetBalance(days) ==
    Query("get_balance", [days |-> days], get_balance(transactions, days))

CallGetCategorySummary(days) ==
    Query("get_category_summary", [days |-> days],
          get_category_summary(transactions, days))

(***************************** the queries' runs ***************************)
QueryInputs ==
    { [amount |-> 50, category |-> Food, description |-> Lunch,
       transaction_type |-> Expense, date |-> NoDate],
      [amount |-> 20, category |-> Food, description |-> EmptyStr,
       transaction_type |-> Expense, date |-> Date(2026, 10, 3)],
      [amount |-> 70, category |-> Salary, description |-> EmptyStr,
       transaction_type |-> Income, date |-> Date(2026, 10, 2)],
      [amount |-> 10, category |-> Food, description |-> EmptyStr,
       transaction_type |-> Transfer, date |-> NoDate] }

QueryDays == {0, 30, 1000000}
QueryTypes == {None, EmptyStr, Income, Expense}

QueryNext ==
    \/ (Len(transactions) < MaxQueryTx /\ Add(QueryInputs))
    \/ \E days \in QueryDays, type \in QueryTypes : CallGetTransactions(days, type)
    \/ \E days \in QueryDays : CallGetBalance(days)
    \/ \E days \in QueryDays : CallGetCategorySummary(days)

QuerySpec == Init /\ [][QueryNext]_vars

(***************************** properties **********************************)
Last(l) == l[Len(l)]

InRegistry(category, type) ==
    \E i \in 1..Len(categories(type)) : categories(type)[i] = category

\* the file holds exactly the records of txs, in order, every field readable
\* as the in-memory value and the date as its YYYY-MM-DD text
PersistedEquals(f, txs) ==
    /\ f.kind = "json"
    /\ Len(f.transactions) = Len(txs)
    /\ \A i \in 1..Len(txs) :
        /\ ReadNum(f.transactions[i].id) = txs[i].id
        /\ ReadNum(f.transactions[i].amount) = txs[i].amount
        /\ ReadStr(f.transactions[i].category) = txs[i].category
        /\ ReadStr(f.transactions[i].description) = txs[i].description
        /\ ReadStr(f.transactions[i].type) = txs[i].type
        /\ ReadStr(f.transactions[i].date) = strftime(txs[i].date, zeroPadYear)

\* the window, by day counts alone
InWindow(t, days) == toordinal(t.date) >= toordinal(Today) - days

Selected(txs, days, type) ==
    {i \in 1..Len(txs) : InWindow(txs[i], days) /\ (type = None \/ txs[i].type = type)}

\* v lists exactly the transactions of txs at the positions sel, newest date
\* first, equal dates in store order
ListsNewestFirst(v, txs, sel) ==
    /\ Len(v) = Cardinality(sel)
    /\ \A i \in sel : \E k \in 1..Len(v) : v[k] = txs[i]
    /\ \A k \in 1..Len(v) : \E i \in sel : v[k] = txs[i]
    /\ \A k, l \in 1..Len(v) :
        k < l => /\ toordinal(v[k].date) >= toordinal(v[l].date)
                 /\ (v[k].date = v[l].date => v[k].id < v[l].id)

Total(txs, idx) ==
    LET RECURSIVE Sum(_)
        Sum(S) == IF S = {} THEN 0
                  ELSE LET i == CHOOSE i \in S : TRUE IN txs[i].amount + Sum(S \ {i})
    IN  Sum(idx)

\* m maps exactly the categories that type has in the window to their totals
SummarizesType(m, txs, days, type) ==
    LET sel == Selected(txs, days, type) IN
    /\ DOMAIN m = {txs[i].category : i \in sel}
    /\ \A c \in DOMAIN m : m[c] = Total(txs, {i \in sel : txs[i].category = c})

OnlyIncomeExpense(txs) ==
    LET known(t) == t.type \in {Income, Expense} IN SelectSeq(txs, known)

\* C1: add_transaction with a category outside the registry list of its type
\* is rejected: a failure is reported, memory and file stay as they were.
C1_InvalidCategoryRejected ==
    [][(op' = "add_transaction" /\ ~InRegistry(args'.category, args'.transaction_type))
         => (transactions' = transactions /\ file' = file /\ val' # NoVal)]_vars

\* C2: a load that directly follows a successful save yields the sequence
\* that was in memory at the save, equal in length, order and every field.
C2_RoundTrip ==
    [][(op \in {"save_data", "add_transaction"} /\ status = "ok"
        /\ op' \in {"load_data", "init"})
         => transactions' = transactions]_vars

\* C3: a load that does not succeed (file missing, unreadable, malformed,
\* bad date) returns normally and leaves the store empty.
C3_FailedLoadEmptiesStore ==
    [][(op' = "load_data" /\ status' # "ok")
         => (transactions' = <<>> /\ val'.raised = "")]_vars

\* C4: a failing save raises nothing and leaves memory as it is; an add whose
\* save fails still appends; every successful save writes the whole of
\* memory, so the file then holds exactly the in-memory sequence.
C4_FailedSaveKeepsMemory ==
    [][/\ (op' = "save_data" /\ status' = "failed")
            => (transactions' = transactions /\ val'.raised = "")
       /\ (op' = "add_transaction" /\ status' = "failed")
            => /\ val'.raised = ""
               /\ Len(transactions') = Len(transactions) + 1
               /\ SubSeq(transactions', 1, Len(transactions)) = transactions
       /\ (op' \in {"save_data", "add_transaction"} /\ status' = "ok")
            => PersistedEquals(file', transactions')]_vars

\* an add whose save succeeded after an earlier save had failed
C4_Witness ==
    /\ op = "add_transaction" /\ status = "ok" /\ sync = "recovered"
    /\ Len(transactions) >= 2
    /\ PersistedEquals(file, transactions)

\* C5: the ids in the in-memory sequence are pairwise distinct in every
\* reachable state.
C5_IdsDistinct ==
    \A i, j \in 1..Len(transactions) :
        i # j => transactions[i].id # transactions[j].id

\* an add onto a store that a load filled from the file
C5_Witness ==
    /\ op = "add_transaction"
    /\ loaded >= 1
    /\ Len(transactions) > loaded

\* C6: every add appends exactly one element and leaves the earlier ones as
\* they were, and the k-th element of the sequence has id k.
C6_IdsFollowAdditionOrder ==
    /\ [](\A k \in 1..Len(transactions) : transactions[k].id = k)
    /\ [][op' = "add_transaction"
            => /\ Len(transactions') = Len(transactions) + 1
               /\ SubSeq(transactions', 1, Len(transactions)) = transactions
               /\ Last(transactions').id = Len(transactions')]_vars

\* MaxTx adds onto the empty store, the last one's save failing
C6_Witness ==
    /\ op = "add_transaction" /\ status = "failed"
    /\ loaded = 0
    /\ Len(transactions) = MaxTx
    /\ \A k \in 1..MaxTx : transactions[k].id = k

\* C7: a transaction whose type is neither income nor expense changes
\* neither the balance nor the two maps of the category summary.
C7_OtherTypesExcluded ==
    /\ (op = "get_balance" /\ val.raised = "")
         => val = get_balance(OnlyIncomeExpense(transactions), args.days)
    /\ (op = "get_category_summary" /\ val.raised = "")
         => val = get_category_summary(OnlyIncomeExpense(transactions), args.days)

\* C8: get_transactions returns exactly the transactions dated on or after
\* today - days, of the given type when one is given, newest first and equal
\* dates in store order; the store is left as it was.
C8_WindowTypeOrder ==
    [][op' = "get_transactions"
         => /\ transactions' = transactions
            /\ val'.raised = ""
            /\ ListsNewestFirst(val'.value, transactions',
                   Selected(transactions', args'.days, args'.transaction_type))]_vars

\* C9: on a store of income and expense transactions, for every days, the
\* summary's maps hold exactly the categories active in the window, each
\* with the sum of its amounts.
C9_SummaryExact ==
    (op = "get_category_summary" /\ OnlyIncomeExpense(transactions) = transactions)
      => /\ val.raised = ""
         /\ SummarizesType(val.value[1], transactions, args.days, Income)
         /\ SummarizesType(val.value[2], transactions, args.days, Expense)

\* C10: add stores the absolute value of the amount it is given, so the
\* stored amount is never negative.
C10_AmountNormalized ==
    [][op' = "add_transaction"
         => /\ Last(transactions').amount >= 0
            /\ Last(transactions').amount \in {args'.amount, -args'.amount}]_vars

\* add(amount=-50) stored 50
C10_Witness ==
    /\ op = "add_transaction"
    /\ args.amount = -50
    /\ Last(transactions).amount = 50

====
